---- MODULE Spec2Model ----
(***************************************************************************)
(* Prompt-Assistant (src/app.py): the template assembler generate_prompt,  *)
(* the rubric auditor score_inputs and the Streamlit submit flow that      *)
(* builds the field-value mapping and calls both.                          *)
(*                                                                         *)
(* Text.  A Python str is modelled as a sequence of chunks.  A chunk is a  *)
(* run of characters of one class: a whitespace run (" ", "\n\n"), a run   *)
(* of word characters (\w+, "Analyze") or one punctuation character (":"). *)
(* Concatenating chunks concatenates their characters, so two adjacent     *)
(* word chunks form ONE regex token.  Keywords are chunk sequences too and *)
(* substring search is search for a contiguous run of chunks after         *)
(* lower-casing; the sample texts are cut so that every keyword occurrence *)
(* lies on chunk boundaries.                                               *)
(*                                                                         *)
(* Values.  A dict value is Str(t) or NoneVal; a key that is absent is not *)
(* in the DOMAIN of the mapping.                                           *)
(***************************************************************************)
EXTENDS Integers, Sequences, FiniteSets, TLC

VARIABLES
    pc,          \* position of the call / of the script run
    framework,   \* the framework argument, or the selectbox value
    form,        \* the widgets of st.form("prompt_form")
    inputs,      \* the field-value mapping
    prompt,      \* the document generate_prompt returned
    audit,       \* the dict score_inputs returned
    checks,      \* score_inputs' local dict of ten booleans
    score_10     \* score_inputs' local score, in tenths

vars == <<pc, framework, form, inputs, prompt, audit, checks, score_10>>

-----------------------------------------------------------------------------
(* Python values and str methods                                           *)

NoneVal == [none |-> TRUE, s |-> <<>>]

Str(t) == [none |-> FALSE, s |-> t]

\* bool(v) for None and str
Truthy(v) == ~v.none /\ v.s # <<>>

\* x or y
Or(x, y) == IF Truthy(x) THEN x ELSE y

\* dict.get(key): None when the key is absent
Get(m, key) == IF key \in DOMAIN m THEN m[key] ELSE NoneVal

Whitespace == {" ", "\t", "\n", "\n\n"}

Punctuation == {":", ".", ",", ";", "-", "{", "}", "(", ")", "[", "]", "<U+201A>"}

IsSpace(c) == c \in Whitespace

IsPunct(c) == c \in Punctuation

\* a chunk of word characters (\w+)
IsWord(c) == ~IsSpace(c) /\ ~IsPunct(c)

RECURSIVE lstrip(_)
lstrip(t) == IF t # <<>> /\ IsSpace(Head(t)) THEN lstrip(Tail(t)) ELSE t

RECURSIVE rstrip(_)
rstrip(t) ==
    IF t # <<>> /\ IsSpace(t[Len(t)]) THEN rstrip(SubSeq(t, 1, Len(t) - 1)) ELSE t

\* the text as it is: the call of strip() forgotten
strip_Forgotten(t) == t

\* str.strip()
strip(t) == rstrip(lstrip(t))

\* str.lower() of one chunk
LowerChunk(c) ==
    CASE c = "Analyze" -> "analyze"
      [] c = "Cite" -> "cite"
      [] c = "Example" -> "example"
      [] c = "JSON" -> "json"
      [] c = "TBD" -> "tbd"
      [] c = "No" -> "no"
      [] c = "Follow" -> "follow"
      [] c = "<U+00DC><U+00ED>" -> "<U+00FC><U+00ED>"
      [] OTHER -> c

\* str.lower()
lower(t) == [i \in 1..Len(t) |-> LowerChunk(t[i])]

\* k in t
Contains(t, k) ==
    \E i \in 0..(Len(t) - Len(k)) : SubSeq(t, i + 1, i + Len(k)) = k

\* t.count(k): non-overlapping occurrences, scanning from the left
RECURSIVE Count(_, _)
Count(t, k) ==
    IF Len(t) < Len(k) THEN 0
    ELSE IF SubSeq(t, 1, Len(k)) = k
         THEN 1 + Count(SubSeq(t, Len(k) + 1, Len(t)), k)
         ELSE Count(Tail(t), k)

\* "sep".join(parts)
RECURSIVE Join(_, _)
Join(parts, sep) ==
    IF parts = <<>> THEN <<>>
    ELSE IF Len(parts) = 1 THEN parts[1]
    ELSE parts[1] \o sep \o Join(Tail(parts), sep)

RECURSIVE SumSeq(_)
SumSeq(s) == IF s = <<>> THEN 0 ELSE Head(s) + SumSeq(Tail(s))

-----------------------------------------------------------------------------
(* Framework templates                                                     *)

FrameworkIds ==
    <<"CO-STAR", "CRISPE", "CLEAR",
      "Basic (Context-Objective-Constraints-Examples-Output)">>

FRAMEWORKS ==
    ("CO-STAR" :> <<"Context", "Objective", "Style", "Tone", "Audience", "Response">>)
    @@ ("CRISPE" :> <<"Capacity/Constraints", "Role", "Insight/Context", "Steps",
                      "Persona", "Evaluation">>)
    @@ ("CLEAR" :> <<"Context", "Language", "Examples", "Analysis/Thinking Style",
                     "Restrictions">>)
    @@ ("Basic (Context-Objective-Constraints-Examples-Output)" :>
            <<"Context", "Objective", "Constraints", "Examples", "Output Format">>)

DEFAULTS ==
    ("Style" :> <<"Professional", ",", " ", "concise", ",", " ", "structured">>)
    @@ ("Tone" :> <<"Neutral", ",", " ", "informative">>)
    @@ ("Audience" :> <<"General", " ", "professional", " ", "reader">>)
    @@ ("Response" :> <<"Provide", " ", "structured", ",", " ", "clear", ",", " ",
                        "and", " ", "actionable", " ", "answers">>)
    @@ ("Role" :> <<"Expert", " ", "AI", " ", "assistant">>)
    @@ ("Steps" :> <<"Explain", " ", "step", "-", "by", "-", "step", " ", "only",
                     " ", "when", " ", "necessary", ";", " ", "summarize", " ",
                     "reasoning", " ", "(", "no", " ", "chain", "-", "of", "-",
                     "thought", ")", ".">>)
    @@ ("Evaluation" :> <<"Check", " ", "completeness", ",", " ", "clarity", ",",
                          " ", "constraint", " ", "compliance", ",", " ", "and",
                          " ", "coherence", " ", "before", " ", "finalizing", ".">>)
    @@ ("Language" :> <<"English">>)
    @@ ("Analysis/Thinking Style" :> <<"Structured", ",", " ", "evidence", "-",
                                       "based", ";", " ", "brief", " ",
                                       "rationale", " ", "only", ".">>)

-----------------------------------------------------------------------------
(* Prompt generation                                                       *)

NotSpecified == <<"Not", " ", "specified">>

\* the part without the placeholder: `if not val` forgotten
Part_NoPlaceholder(field, m) ==
    <<"**", field, ":**", " ">> \o strip(Or(Get(m, field), Str(<<>>)).s)

\* one pass of the loop body: the part appended for `field`
Part(field, m) ==
    LET val == strip(Or(Get(m, field), Str(<<>>)).s)
    IN  <<"**", field, ":**", " ">> \o (IF val = <<>> THEN NotSpecified ELSE val)

\* the list `parts` after the loop over FRAMEWORKS[fw]
Parts(fw, m) == [i \in 1..Len(FRAMEWORKS[fw]) |-> Part(FRAMEWORKS[fw][i], m)]

\* generate_prompt(framework, inputs) for a framework that is a key of FRAMEWORKS
generate_prompt(fw, m) == Join(Parts(fw, m), <<"\n\n">>)

-----------------------------------------------------------------------------
(* Scoring & rubric                                                        *)

CheckNames ==
    <<"objective_present", "context_present", "constraints_present",
      "examples_present", "output_format_present", "objective_quality",
      "constraints_quality", "examples_quality", "format_quality",
      "ambiguity_low">>

CheckSet == {CheckNames[i] : i \in 1..Len(CheckNames)}

\* ambiguity counted as a penalty instead of as a positive check
RUBRIC_WEIGHTS_Penalty ==
    [k \in CheckSet |->
        CASE k = "objective_present" -> 15
          [] k = "context_present" -> 10
          [] k = "constraints_present" -> 10
          [] k = "examples_present" -> 8
          [] k = "output_format_present" -> 7
          [] k = "objective_quality" -> 12
          [] k = "constraints_quality" -> 10
          [] k = "examples_quality" -> 8
          [] k = "format_quality" -> 8
          [] k = "ambiguity_low" -> 0 - 10]

\* the weights in tenths: 1.5 is 15
RUBRIC_WEIGHTS ==
    [k \in CheckSet |->
        CASE k = "objective_present" -> 15
          [] k = "context_present" -> 10
          [] k = "constraints_present" -> 10
          [] k = "examples_present" -> 8
          [] k = "output_format_present" -> 7
          [] k = "objective_quality" -> 12
          [] k = "constraints_quality" -> 10
          [] k = "examples_quality" -> 8
          [] k = "format_quality" -> 8
          [] k = "ambiguity_low" -> 10]

\* len(re.findall(r"\w+|\S", text)): maximal word runs plus punctuation characters
_len_tokens(text) ==
    IF text = <<>> THEN 0
    ELSE Cardinality({i \in 1..Len(text) :
            \/ IsPunct(text[i])
            \/ IsWord(text[i]) /\ (i = 1 \/ ~IsWord(text[i - 1]))})

_has_any(text, keywords) ==
    IF text = <<>> THEN FALSE
    ELSE LET t == lower(text)
         IN  \E i \in 1..Len(keywords) : Contains(t, lower(keywords[i]))

_count_any(text, keywords) ==
    IF text = <<>> THEN 0
    ELSE LET t == lower(text)
         IN  SumSeq([i \in 1..Len(keywords) |-> Count(t, lower(keywords[i]))])

action_verbs ==
    << <<"analyze">>, <<"summarize">>, <<"compare">>, <<"design">>, <<"draft">>,
       <<"generate">>, <<"evaluate">>, <<"classify">>, <<"extract">> >>

guardrail_terms ==
    << <<"cite">>, <<"do", " ", "not">>, <<"avoid">>, <<"limit">>, <<"word">>,
       <<"tone">>, <<"comply">>, <<"policy">>,
       <<"no", " ", "chain", "-", "of", "-", "thought">>, <<"refuse">> >>

example_markers ==
    << <<"input", ":">>, <<"output", ":">>, <<"example">>, <<"shot">>,
       <<"context", " ", "<U+201A>", "<U+00DC><U+00ED>", " ", "response">>,
       <<"instruction", ":">>, <<"response", ":">> >>

json_markers == << <<"{">>, <<"}">>, <<"json">>, <<"keys">>, <<"schema">> >>

section_markers ==
    << <<"bullet">>, <<"markdown">>, <<"sections">>,
       <<"executive", " ", "summary">>, <<"findings">>, <<"recommendations">> >>

vague_terms ==
    << <<"tbd">>, <<"etc", ".">>, <<"and", " ", "so", " ", "on">>,
       <<"something", " ", "like">>, <<"roughly">>, <<"maybe">>,
       <<"as", " ", "needed">> >>

\* the five slots ctx, obj, cons, ex, fmt
Slots(m) ==
    [ctx  |-> strip(Or(Get(m, "Context"),
                       Or(Get(m, "Insight/Context"), Str(<<>>))).s),
     obj  |-> strip(Or(Get(m, "Objective"), Str(<<>>)).s),
     cons |-> strip(Or(Get(m, "Constraints"),
                       Or(Get(m, "Capacity/Constraints"),
                          Or(Get(m, "Restrictions"), Str(<<>>)))).s),
     ex   |-> strip(Or(Get(m, "Examples"), Str(<<>>)).s),
     fmt  |-> strip(Or(Get(m, "Output Format"), Str(<<>>)).s)]

objective_quality(obj) == (_len_tokens(obj) >= 8) /\ _has_any(obj, action_verbs)

\* the length test the wrong way round
constraints_quality_Flipped(cons) ==
    _has_any(cons, guardrail_terms) \/ (_len_tokens(cons) <= 6)

constraints_quality(cons) ==
    _has_any(cons, guardrail_terms) \/ (_len_tokens(cons) >= 6)

examples_quality(ex) ==
    \/ _has_any(ex, example_markers)
    \/ (_count_any(ex, << <<":">> >>) >= 2 /\ _len_tokens(ex) >= 12)

format_quality(fmt) == _has_any(fmt, json_markers \o section_markers)

high_ambiguity(obj, ctx) == _has_any(obj \o <<" ">> \o ctx, vague_terms)

\* the dict `checks` once all ten keys are set
Checks(s) ==
    [k \in CheckSet |->
        CASE k = "objective_present" -> s.obj # <<>>
          [] k = "context_present" -> s.ctx # <<>>
          [] k = "constraints_present" -> s.cons # <<>>
          [] k = "examples_present" -> s.ex # <<>>
          [] k = "output_format_present" -> s.fmt # <<>>
          [] k = "objective_quality" -> objective_quality(s.obj)
          [] k = "constraints_quality" -> constraints_quality(s.cons)
          [] k = "examples_quality" -> examples_quality(s.ex)
          [] k = "format_quality" -> format_quality(s.fmt)
          [] k = "ambiguity_low" -> ~high_ambiguity(s.obj, s.ctx)]

\* the score normalised by 10 instead of by the sum of the weights
max_score_Ten == 10 * 10

\* sum(RUBRIC_WEIGHTS.values()), in tenths
max_score == SumSeq([i \in 1..Len(CheckNames) |-> RUBRIC_WEIGHTS[CheckNames[i]]])

\* sum(RUBRIC_WEIGHTS[k] for k, v in checks.items() if v), in tenths
raw(c) ==
    SumSeq([i \in 1..Len(CheckNames) |->
                IF c[CheckNames[i]] THEN RUBRIC_WEIGHTS[CheckNames[i]] ELSE 0])

\* truncation instead of rounding
Round1_Floor(n, d) == (10 * n) \div d

\* round(n / d, 1) in tenths of the result, for n, d in tenths: the nearest
\* tenth, a tie going to the even one
Round1(n, d) ==
    LET q == (10 * n) \div d
        r == (10 * n) % d
    IN  IF 2 * r < d THEN q
        ELSE IF 2 * r > d THEN q + 1
        ELSE IF q % 2 = 0 THEN q ELSE q + 1

\* score_10 = round(10 * raw / max_score, 1), in tenths
Aggregate(c) == Round1(10 * raw(c), max_score)

\* the suggestion texts; the two whose source text holds non-ASCII characters
\* (S_CONSTRAINTS_TIGHTEN, S_EXAMPLES_ADD) are abridged
S_OBJECTIVE_ADD ==
    "Add a clear objective starting with a strong verb (e.g., *Analyze*, *Summarize*, *Design*)."

S_OBJECTIVE_SPECIFIC ==
    "Make the objective more specific (scope, data, success criteria)."

S_CONTEXT_ADD ==
    "Provide domain, audience, and key background constraints in **Context**."

S_CONSTRAINTS_ADD ==
    "Add **Constraints** (tone, word/section limits, must/avoid, compliance/guardrails)."

S_CONSTRAINTS_TIGHTEN ==
    "Tighten **Constraints**: include style, limits, and guardrails."

S_EXAMPLES_ADD == "Add **few-shot Examples** (clear Input/Output pairs)."

S_EXAMPLES_IMPROVE ==
    "Improve examples: label **Input:** and **Output:** and show the ideal structure."

S_FORMAT_ADD ==
    "Specify an **Output Format** (e.g., bullet points or JSON with required keys)."

S_FORMAT_REFINE ==
    "Refine format: define JSON keys or markdown sections (Executive Summary, Findings, Recommendations)."

S_AMBIGUITY_REMOVE ==
    "Remove vague phrases (e.g., *TBD, etc.*) and state exact scope/assumptions."

\* every elif written as if
Suggestions_IfIf(c) ==
    (IF ~c["objective_present"] THEN <<S_OBJECTIVE_ADD>> ELSE <<>>)
    \o (IF ~c["objective_quality"] THEN <<S_OBJECTIVE_SPECIFIC>> ELSE <<>>)
    \o (IF ~c["context_present"] THEN <<S_CONTEXT_ADD>> ELSE <<>>)
    \o (IF ~c["constraints_present"] THEN <<S_CONSTRAINTS_ADD>> ELSE <<>>)
    \o (IF ~c["constraints_quality"] THEN <<S_CONSTRAINTS_TIGHTEN>> ELSE <<>>)
    \o (IF ~c["examples_present"] THEN <<S_EXAMPLES_ADD>> ELSE <<>>)
    \o (IF ~c["examples_quality"] THEN <<S_EXAMPLES_IMPROVE>> ELSE <<>>)
    \o (IF ~c["output_format_present"] THEN <<S_FORMAT_ADD>> ELSE <<>>)
    \o (IF ~c["format_quality"] THEN <<S_FORMAT_REFINE>> ELSE <<>>)
    \o (IF ~c["ambiguity_low"] THEN <<S_AMBIGUITY_REMOVE>> ELSE <<>>)

\* the list `suggestions` after the six if-statements
Suggestions(c) ==
    (IF ~c["objective_present"] THEN <<S_OBJECTIVE_ADD>>
     ELSE IF ~c["objective_quality"] THEN <<S_OBJECTIVE_SPECIFIC>> ELSE <<>>)
    \o (IF ~c["context_present"] THEN <<S_CONTEXT_ADD>> ELSE <<>>)
    \o (IF ~c["constraints_present"] THEN <<S_CONSTRAINTS_ADD>>
        ELSE IF ~c["constraints_quality"] THEN <<S_CONSTRAINTS_TIGHTEN>> ELSE <<>>)
    \o (IF ~c["examples_present"] THEN <<S_EXAMPLES_ADD>>
        ELSE IF ~c["examples_quality"] THEN <<S_EXAMPLES_IMPROVE>> ELSE <<>>)
    \o (IF ~c["output_format_present"] THEN <<S_FORMAT_ADD>>
        ELSE IF ~c["format_quality"] THEN <<S_FORMAT_REFINE>> ELSE <<>>)
    \o (IF ~c["ambiguity_low"] THEN <<S_AMBIGUITY_REMOVE>> ELSE <<>>)

\* the returned dict, from the locals checks and score_10
Result(c, s10) ==
    [score_out_of_10 |-> s10, checks |-> c, suggestions |-> Suggestions(c)]

score_inputs(m) == Result(Checks(Slots(m)), Aggregate(Checks(Slots(m))))

-----------------------------------------------------------------------------
(* Bounded inputs                                                          *)

\* the widest run of surrounding whitespace in a sample text
MaxPad == 1

\* the token count of the longest sample text
MaxTokens == 13

Pad(n) == [i \in 1..n |-> " "]

PadBoth(t) == Pad(MaxPad) \o t \o Pad(MaxPad)

\* n words separated by single blanks
Words(n) == [i \in 1..(2 * n - 1) |-> IF i % 2 = 1 THEN "x" ELSE " "]

\* c labelled items "x: " followed by words, n tokens in all
Labelled(c, n) ==
    [i \in 1..(3 * c) |-> IF i % 3 = 1 THEN "x" ELSE IF i % 3 = 2 THEN ":" ELSE " "]
    \o Words(n - 2 * c)

\* marks a key left out of the mapping
Absent == [none |-> TRUE, s |-> <<"absent">>]

\* the dict with the keys of f whose value is not Absent
Dict(f) == [k \in {l \in DOMAIN f : f[l] # Absent} |-> f[k]]

BlankValues == {Absent, NoneVal, Str(<<>>), Str(Pad(MaxPad))}

ObjectiveValues ==
    {Absent, Str(Pad(MaxPad)), Str(PadBoth(<<"x">>)), Str(<<"as">>),
     Str(<<"maybe">>), Str(<<"Analyze", " ">> \o Words(6)),
     Str(PadBoth(<<"Analyze", " ">> \o Words(7))),
     Str(<<"Analyze", " ">> \o Words(7) \o <<" ", "TBD">>),
     Str(Words(MaxTokens))}

ContextValues ==
    {Absent, Str(Pad(MaxPad)), Str(PadBoth(<<"x">>)), Str(<<"maybe">>),
     Str(<<"needed">>)}

ConstraintsValues ==
    {Absent, Str(Pad(MaxPad)), Str(<<"x">>), Str(<<"Cite">>), Str(Words(5)),
     Str(PadBoth(Words(6))), Str(Words(MaxTokens))}

ExamplesValues ==
    {Absent, Str(Pad(MaxPad)), Str(<<"x">>), Str(<<"Example">>),
     Str(Labelled(1, 12)), Str(Labelled(2, 11)), Str(PadBoth(Labelled(2, 12))),
     Str(Labelled(2, MaxTokens))}

FormatValues ==
    {Absent, Str(Pad(MaxPad)), Str(<<"x">>), Str(PadBoth(<<"JSON">>)),
     Str(<<"{">>)}

Basic(o, c, k, e, f) ==
    Dict(("Objective" :> o) @@ ("Context" :> c) @@ ("Constraints" :> k)
         @@ ("Examples" :> e) @@ ("Output Format" :> f))

\* mappings over the five labels of the Basic framework, with text
PrimaryInputs ==
    {Basic(o, c, k, e, f) :
        o \in ObjectiveValues, c \in ContextValues, k \in ConstraintsValues,
        e \in ExamplesValues, f \in FormatValues}

\* the same five labels, each absent, None, empty or whitespace-only
BlankInputs ==
    {Basic(o, c, k, e, f) :
        o \in BlankValues, c \in BlankValues, k \in BlankValues,
        e \in BlankValues, f \in BlankValues}

AliasContextValues == BlankValues \cup {Str(<<"x">>), Str(<<"needed">>)}

AliasConstraintsValues == BlankValues \cup {Str(<<"x">>), Str(<<"Cite">>)}

\* mappings that use the alias labels of the context and constraints slots
AliasInputs ==
    {Dict(("Objective" :> o) @@ ("Context" :> c1) @@ ("Insight/Context" :> c2)
          @@ ("Constraints" :> k1) @@ ("Capacity/Constraints" :> k2)
          @@ ("Restrictions" :> k3)) :
        o \in {Absent, Str(<<"as">>)},
        c1 \in AliasContextValues, c2 \in AliasContextValues,
        k1 \in AliasConstraintsValues, k2 \in AliasConstraintsValues,
        k3 \in AliasConstraintsValues}

-----------------------------------------------------------------------------
(* score_inputs called on a mapping                                        *)

EmptyForm ==
    [objective |-> <<>>, context |-> <<>>, constraints |-> <<>>,
     examples |-> <<>>, output_format |-> <<>>]

NoChecks == [k \in CheckSet |-> FALSE]

Init ==
    /\ pc = "call"
    /\ \/ inputs \in PrimaryInputs
       \/ inputs \in BlankInputs
       \/ inputs \in AliasInputs
    /\ framework = FrameworkIds[1]
    /\ form = EmptyForm
    /\ prompt = NoneVal
    /\ audit = NoneVal
    /\ checks = NoChecks
    /\ score_10 = 0

ScoreInputs ==
    /\ pc = "call"
    /\ checks' = Checks(Slots(inputs))
    /\ score_10' = Aggregate(checks')
    /\ audit' = Result(checks', score_10')
    /\ pc' = "returned"
    /\ UNCHANGED <<framework, form, inputs, prompt>>

Next == ScoreInputs

Spec == Init /\ [][Next]_vars

-----------------------------------------------------------------------------
(* The aggregation step of score_inputs on any assignment of the checks    *)

InitScore ==
    /\ pc = "checks"
    /\ checks \in [CheckSet -> BOOLEAN]
    /\ score_10 = 0
    /\ inputs = NoneVal
    /\ framework = FrameworkIds[1]
    /\ form = EmptyForm
    /\ prompt = NoneVal
    /\ audit = NoneVal

AggregateScore ==
    /\ pc = "checks"
    /\ score_10' = Aggregate(checks)
    /\ pc' = "scored"
    /\ UNCHANGED <<framework, form, inputs, prompt, audit, checks>>

NextScore == AggregateScore

ScoreSpec == InitScore /\ [][NextScore]_vars

-----------------------------------------------------------------------------
(* generate_prompt called on a framework identifier and a mapping          *)

\* an identifier that is no key of FRAMEWORKS
UnknownFramework == "COSTAR"

\* the text sample holds a blank line inside and whitespace around
RenderValues ==
    BlankValues \cup {Str(PadBoth(<<"x", "\n\n", "y">>))}

\* mappings over the six labels of a six-label framework
LabelInputs6(l) ==
    {Dict((l[1] :> a) @@ (l[2] :> b) @@ (l[3] :> c) @@ (l[4] :> d)
          @@ (l[5] :> e) @@ (l[6] :> f)) :
        a \in RenderValues, b \in RenderValues, c \in RenderValues,
        d \in RenderValues, e \in RenderValues, f \in RenderValues}

\* mappings over the five labels of a five-label framework and one label
\* that is not among them
LabelInputs5(l, other) ==
    {Dict((l[1] :> a) @@ (l[2] :> b) @@ (l[3] :> c) @@ (l[4] :> d)
          @@ (l[5] :> e) @@ (other :> f)) :
        a \in RenderValues, b \in RenderValues, c \in RenderValues,
        d \in RenderValues, e \in RenderValues,
        f \in {Absent, Str(<<"x">>)}}

RenderInputs(fw) ==
    IF fw \notin DOMAIN FRAMEWORKS
    THEN LabelInputs5(FRAMEWORKS[FrameworkIds[4]], "Style")
    ELSE IF Len(FRAMEWORKS[fw]) = 6 THEN LabelInputs6(FRAMEWORKS[fw])
    ELSE LabelInputs5(FRAMEWORKS[fw], "Style")

InitRender ==
    /\ pc = "call"
    /\ framework \in {FrameworkIds[i] : i \in 1..Len(FrameworkIds)}
                     \cup {UnknownFramework}
    /\ inputs \in RenderInputs(framework)
    /\ form = EmptyForm
    /\ prompt = NoneVal
    /\ audit = NoneVal
    /\ checks = NoChecks
    /\ score_10 = 0

\* FRAMEWORKS.get(framework, []) in place of FRAMEWORKS[framework]
GeneratePrompt_Get ==
    /\ pc = "call"
    /\ prompt' = Str(IF framework \in DOMAIN FRAMEWORKS
                     THEN generate_prompt(framework, inputs) ELSE <<>>)
    /\ pc' = "returned"
    /\ UNCHANGED <<framework, form, inputs, audit, checks, score_10>>

\* FRAMEWORKS[framework] raises KeyError before anything is built
GeneratePrompt ==
    /\ pc = "call"
    /\ IF framework \in DOMAIN FRAMEWORKS
       THEN /\ prompt' = Str(generate_prompt(framework, inputs))
            /\ pc' = "returned"
       ELSE /\ prompt' = prompt
            /\ pc' = "KeyError"
    /\ UNCHANGED <<framework, form, inputs, audit, checks, score_10>>

NextRender == GeneratePrompt

RenderSpec == InitRender /\ [][NextRender]_vars

-----------------------------------------------------------------------------
(* The Streamlit script: the form, the framework selectbox and the submit  *)
(* flow.  Widgets inside st.form keep what the user typed and do not rerun *)
(* the script; changing the selectbox reruns it with submitted = False,    *)
(* which draws the page without results; the submit button reruns it with  *)
(* submitted = True.                                                       *)

Widgets == {"objective", "context", "constraints", "examples", "output_format"}

\* what the user may type into each widget
Typed(w) ==
    CASE w = "objective" ->
            {<<>>, Pad(MaxPad), <<"Analyze", " ">> \o Words(7)}
      [] w = "context" -> {<<>>, <<"x">>}
      [] w = "constraints" -> {<<>>, Pad(MaxPad), <<"x">>, PadBoth(<<"Cite">>)}
      [] w = "examples" -> {<<>>, <<"Example">>}
      [] w = "output_format" -> {<<>>, <<"JSON">>}

CapacityFallback ==
    <<"Follow", " ", "constraints", " ", "and", " ", "platform", " ",
      "policies", ".">>

RestrictionsFallback ==
    <<"No", " ", "chain", "-", "of", "-", "thought", ";", " ", "cite", " ",
      "sources", " ", "if", " ", "used", ";", " ", "comply", " ", "with", " ",
      "safety", " ", "policies", ".">>

\* the dict literal `inputs` of the submit flow
BuildInputs(f) ==
    ("Context" :> Str(f.context))
    @@ ("Objective" :> Str(f.objective))
    @@ ("Constraints" :> Str(f.constraints))
    @@ ("Examples" :> Str(f.examples))
    @@ ("Output Format" :> Str(f.output_format))
    @@ ("Style" :> Str(DEFAULTS["Style"]))
    @@ ("Tone" :> Str(DEFAULTS["Tone"]))
    @@ ("Audience" :> Str(DEFAULTS["Audience"]))
    @@ ("Response" :> Str(DEFAULTS["Response"]))
    @@ ("Capacity/Constraints" :> Or(Str(f.constraints), Str(CapacityFallback)))
    @@ ("Role" :> Str(DEFAULTS["Role"]))
    @@ ("Insight/Context" :> Str(f.context))
    @@ ("Steps" :> Str(DEFAULTS["Steps"]))
    @@ ("Persona" :> Str(<<"Helpful", ",", " ", "professional", " ", "assistant">>))
    @@ ("Evaluation" :> Str(DEFAULTS["Evaluation"]))
    @@ ("Language" :> Str(DEFAULTS["Language"]))
    @@ ("Analysis/Thinking Style" :> Str(DEFAULTS["Analysis/Thinking Style"]))
    @@ ("Restrictions" :> Or(Str(f.constraints), Str(RestrictionsFallback)))

InitApp ==
    /\ pc = "form"
    /\ framework = FrameworkIds[1]
    /\ form = EmptyForm
    /\ inputs = NoneVal
    /\ prompt = NoneVal
    /\ audit = NoneVal
    /\ checks = NoChecks
    /\ score_10 = 0

\* the user types into a widget of the form
Edit ==
    \E w \in Widgets : \E t \in Typed(w) :
        /\ t # form[w]
        /\ form' = [form EXCEPT ![w] = t]
        /\ UNCHANGED <<pc, framework, inputs, prompt, audit, checks, score_10>>

\* the user picks another framework: a run of the script with submitted = False
SelectFramework ==
    \E i \in 1..Len(FrameworkIds) :
        /\ FrameworkIds[i] # framework
        /\ framework' = FrameworkIds[i]
        /\ pc' = "form"
        /\ inputs' = NoneVal
        /\ prompt' = NoneVal
        /\ audit' = NoneVal
        /\ checks' = NoChecks
        /\ score_10' = 0
        /\ UNCHANGED form

\* the user presses the submit button: a run of the script with submitted = True
Submit ==
    /\ IF ~Truthy(Str(form.objective))
       THEN /\ pc' = "error"
            /\ inputs' = NoneVal
            /\ prompt' = NoneVal
            /\ audit' = NoneVal
            /\ checks' = NoChecks
            /\ score_10' = 0
       ELSE /\ inputs' = BuildInputs(form)
            /\ prompt' = Str(generate_prompt(framework, inputs'))
            /\ checks' = Checks(Slots(inputs'))
            /\ score_10' = Aggregate(checks')
            /\ audit' = Result(checks', score_10')
            /\ pc' = "shown"
    /\ UNCHANGED <<framework, form>>

NextApp == Edit \/ SelectFramework \/ Submit

AppSpec == InitApp /\ [][NextApp]_vars

-----------------------------------------------------------------------------
(* Properties                                                              *)

\* the value of `label` is absent, None, empty or whitespace-only
IsBlank(m, label) ==
    \/ label \notin DOMAIN m
    \/ m[label].none
    \/ \A i \in 1..Len(m[label].s) : IsSpace(m[label].s[i])

\* v is t without its leading and trailing whitespace, and is not empty
IsTrimOf(v, t) ==
    /\ v # <<>>
    /\ ~IsSpace(v[1])
    /\ ~IsSpace(v[Len(v)])
    /\ \E i \in 0..(Len(t) - Len(v)) :
          /\ SubSeq(t, i + 1, i + Len(v)) = v
          /\ \A j \in 1..i : IsSpace(t[j])
          /\ \A j \in (i + Len(v) + 1)..Len(t) : IsSpace(t[j])

HasSuggestion(s) == \E i \in 1..Len(audit.suggestions) : audit.suggestions[i] = s

\* the topic of a suggestion, in the order of the six topics
Topic(s) ==
    CASE s \in {S_OBJECTIVE_ADD, S_OBJECTIVE_SPECIFIC} -> 1
      [] s = S_CONTEXT_ADD -> 2
      [] s \in {S_CONSTRAINTS_ADD, S_CONSTRAINTS_TIGHTEN} -> 3
      [] s \in {S_EXAMPLES_ADD, S_EXAMPLES_IMPROVE} -> 4
      [] s \in {S_FORMAT_ADD, S_FORMAT_REFINE} -> 5
      [] s = S_AMBIGUITY_REMOVE -> 6
      [] OTHER -> 0

\* the weight of the true checks of the returned audit, in tenths
TrueWeight ==
    (IF audit.checks["objective_present"] THEN 15 ELSE 0)
    + (IF audit.checks["context_present"] THEN 10 ELSE 0)
    + (IF audit.checks["constraints_present"] THEN 10 ELSE 0)
    + (IF audit.checks["examples_present"] THEN 8 ELSE 0)
    + (IF audit.checks["output_format_present"] THEN 7 ELSE 0)
    + (IF audit.checks["objective_quality"] THEN 12 ELSE 0)
    + (IF audit.checks["constraints_quality"] THEN 10 ELSE 0)
    + (IF audit.checks["examples_quality"] THEN 8 ELSE 0)
    + (IF audit.checks["format_quality"] THEN 8 ELSE 0)
    + (IF audit.checks["ambiguity_low"] THEN 10 ELSE 0)

\* s tenths is the tenth nearest to 10 * TrueWeight / total
IsNearestTenth(s, total) ==
    /\ 2 * (total * s - 100 * TrueWeight) <= total
    /\ 2 * (100 * TrueWeight - total * s) <= total

\* C1, as stated: the score lies in [0, 10], is a whole number of tenths and
\* is 10 * (weight of the true checks) / 10.3 rounded to one decimal.
C1_ScoreOver103 ==
    pc = "returned" =>
        /\ audit.score_out_of_10 \in 0..100
        /\ IsNearestTenth(audit.score_out_of_10, 103)

\* C1, amended: the score lies in [0, 10], is a whole number of tenths and is
\* 10 * (weight of the true checks) / 9.8 rounded to one decimal, 9.8 being
\* the sum of the ten weights.
C1_ScoreOver98 ==
    pc = "returned" =>
        /\ audit.score_out_of_10 \in 0..100
        /\ IsNearestTenth(audit.score_out_of_10, 98)

\* C1 witness: an audit with some checks true and some false, whose exact
\* ratio is not a whole number of tenths.
C1_Witness ==
    /\ pc = "returned"
    /\ audit.checks["objective_quality"]
    /\ ~audit.checks["examples_present"]
    /\ (100 * TrueWeight) % 98 # 0

\* C2: turning one false check true, the others fixed, never lowers the
\* rounded score.
C2_ScoreMonotone ==
    pc = "scored" =>
        \A k \in CheckSet :
            ~checks[k] => Aggregate([checks EXCEPT ![k] = TRUE]) >= score_10

\* C2 witness: a scored assignment with a false check and a true one.
C2_Witness ==
    /\ pc = "scored"
    /\ ~checks["output_format_present"]
    /\ checks["objective_present"]
    /\ score_10 > 0

AuditLabels ==
    {"Objective", "Context", "Insight/Context", "Constraints",
     "Capacity/Constraints", "Restrictions", "Examples", "Output Format"}

AllSlotsBlank == \A l \in AuditLabels : IsBlank(inputs, l)

\* C3: with every alias label of every slot blank, the call returns with the
\* five presence checks and the four slot quality checks false, ambiguity_low
\* true, and exactly the five "missing" suggestions in slot order.
C3_AllSlotsEmpty ==
    (pc = "returned" /\ AllSlotsBlank) =>
        /\ audit.checks = [k \in CheckSet |-> k = "ambiguity_low"]
        /\ audit.suggestions =
              <<S_OBJECTIVE_ADD, S_CONTEXT_ADD, S_CONSTRAINTS_ADD,
                S_EXAMPLES_ADD, S_FORMAT_ADD>>

\* C3 witness: a returned audit of a mapping whose slots are blank in each of
\* the ways: a None, an empty and a whitespace-only value, and absent keys.
C3_Witness ==
    /\ pc = "returned"
    /\ AllSlotsBlank
    /\ "Objective" \in DOMAIN inputs /\ inputs["Objective"].none
    /\ "Context" \in DOMAIN inputs /\ inputs["Context"] = Str(<<>>)
    /\ "Examples" \in DOMAIN inputs /\ Truthy(inputs["Examples"])
    /\ "Output Format" \notin DOMAIN inputs

\* the value the document shows for `label`: the trimmed value, or the
\* placeholder for a blank one
ShownValue(m, label) ==
    IF IsBlank(m, label) THEN <<"Not", " ", "specified">>
    ELSE LET t == m[label].s
         IN  CHOOSE v \in {SubSeq(t, i, j) : i \in 1..Len(t), j \in 1..Len(t)} :
                 IsTrimOf(v, t)

\* the segments from the i-th on, one blank line between neighbours
RECURSIVE SegmentsFrom(_, _, _)
SegmentsFrom(i, labels, m) ==
    <<"**", labels[i], ":**", " ">> \o ShownValue(m, labels[i])
    \o (IF i = Len(labels) THEN <<>>
        ELSE <<"\n\n">> \o SegmentsFrom(i + 1, labels, m))

\* C4: the document is one segment per label of the framework, in the
\* declared order, one blank line between neighbours and nothing else; the
\* segment of label L is '**L:** v', v the trimmed value, or 'Not specified'
\* for a value that is absent, None, empty or whitespace-only.
C4_OneSegmentPerLabel ==
    pc = "returned" =>
        prompt = Str(SegmentsFrom(1, FRAMEWORKS[framework], inputs))

\* C4 witness: a returned document for a mapping with the first label blank
\* and the last label holding text between whitespace.
C4_Witness ==
    /\ pc = "returned"
    /\ LET labels == FRAMEWORKS[framework]
       IN  /\ IsBlank(inputs, labels[1])
           /\ ~IsBlank(inputs, labels[Len(labels)])
           /\ IsSpace(inputs[labels[Len(labels)]].s[1])

\* C5: a call with an identifier that is no key of FRAMEWORKS ends in the
\* KeyError fault and returns no document, whatever the mapping.
C5_UnknownFrameworkFaults ==
    (framework \notin DOMAIN FRAMEWORKS /\ pc # "call") =>
        /\ pc = "KeyError"
        /\ prompt = NoneVal

\* C5 witness: the fault, for a mapping that holds text.
C5_Witness ==
    /\ pc = "KeyError"
    /\ ~IsBlank(inputs, "Objective")

\* C6: the suggestions are known texts in strictly increasing topic order (so
\* at most one per topic and at most six); a "missing" suggestion appears iff
\* the presence check is false, a "quality" suggestion iff presence is true
\* and quality false, the context suggestion iff context_present is false and
\* the ambiguity suggestion iff ambiguity_low is false.
C6_SuggestionPolicy ==
    pc = "returned" =>
        LET c == audit.checks
            sg == audit.suggestions
        IN  /\ Len(sg) <= 6
            /\ \A i \in 1..Len(sg) : Topic(sg[i]) \in 1..6
            /\ \A i \in 1..Len(sg) : \A j \in 1..Len(sg) :
                  i < j => Topic(sg[i]) < Topic(sg[j])
            /\ HasSuggestion(S_OBJECTIVE_ADD) <=> ~c["objective_present"]
            /\ HasSuggestion(S_OBJECTIVE_SPECIFIC) <=>
                  (c["objective_present"] /\ ~c["objective_quality"])
            /\ HasSuggestion(S_CONTEXT_ADD) <=> ~c["context_present"]
            /\ HasSuggestion(S_CONSTRAINTS_ADD) <=> ~c["constraints_present"]
            /\ HasSuggestion(S_CONSTRAINTS_TIGHTEN) <=>
                  (c["constraints_present"] /\ ~c["constraints_quality"])
            /\ HasSuggestion(S_EXAMPLES_ADD) <=> ~c["examples_present"]
            /\ HasSuggestion(S_EXAMPLES_IMPROVE) <=>
                  (c["examples_present"] /\ ~c["examples_quality"])
            /\ HasSuggestion(S_FORMAT_ADD) <=> ~c["output_format_present"]
            /\ HasSuggestion(S_FORMAT_REFINE) <=>
                  (c["output_format_present"] /\ ~c["format_quality"])
            /\ HasSuggestion(S_AMBIGUITY_REMOVE) <=> ~c["ambiguity_low"]

\* C6 witness: six suggestions, among them a "missing" one, a "quality" one
\* and the ambiguity one.
C6_Witness ==
    /\ pc = "returned"
    /\ Len(audit.suggestions) = 6
    /\ HasSuggestion(S_OBJECTIVE_SPECIFIC)
    /\ HasSuggestion(S_EXAMPLES_ADD)
    /\ HasSuggestion(S_CONSTRAINTS_TIGHTEN)

\* some alias label holds a non-whitespace character
SomeAliasHasText(labels) == \E l \in labels : ~IsBlank(inputs, l)

\* C7: context_present (constraints_present) is true whenever an alias label
\* of the slot holds text with a non-whitespace character, also when an
\* earlier alias holds only whitespace.
C7_AliasFirstNonBlank ==
    pc = "returned" =>
        /\ SomeAliasHasText({"Context", "Insight/Context"})
              => audit.checks["context_present"]
        /\ SomeAliasHasText({"Constraints", "Capacity/Constraints", "Restrictions"})
              => audit.checks["constraints_present"]

\* C8: each slot quality check implies the presence check of its slot.
C8_QualityImpliesPresence ==
    pc = "returned" =>
        /\ audit.checks["objective_quality"] => audit.checks["objective_present"]
        /\ audit.checks["constraints_quality"] => audit.checks["constraints_present"]
        /\ audit.checks["examples_quality"] => audit.checks["examples_present"]
        /\ audit.checks["format_quality"] => audit.checks["output_format_present"]

\* C8 witness: an audit with a quality check true and another slot absent.
C8_Witness ==
    /\ pc = "returned"
    /\ audit.checks["constraints_quality"]
    /\ audit.checks["format_quality"]
    /\ ~audit.checks["examples_present"]
    /\ ~audit.checks["examples_quality"]

AllChecksTrue == \A k \in CheckSet : audit.checks[k]

\* C9: no suggestions, all ten checks true and a score of 10.0 are
\* equivalent.
C9_LooksGreatIffPerfect ==
    pc = "returned" =>
        /\ (audit.suggestions = <<>>) <=> AllChecksTrue
        /\ AllChecksTrue <=> (audit.score_out_of_10 = 100)

\* C9 witness: an audit without suggestions.
C9_Witness ==
    /\ pc = "returned"
    /\ audit.suggestions = <<>>

\* C10: after a submit that passed the objective test, constraints_present is
\* true exactly when the text typed into Constraints is non-empty after
\* trimming, and a blank Constraints field gets the 'Add **Constraints**'
\* suggestion.
C10_ConstraintsAreTheUsers ==
    pc = "shown" =>
        LET typed == inputs["Constraints"].s
        IN  /\ audit.checks["constraints_present"] <=> (strip(typed) # <<>>)
            /\ (strip(typed) = <<>>) => HasSuggestion(S_CONSTRAINTS_ADD)

====
